---- MODULE Spec2Model ----
(***************************************************************************)
(* Model of src/src/router.py: the keyword classifier (classify_task), the *)
(* router (route_task, find_cheapest_model) and the budget counter         *)
(* (track_cost) of ModelRouter.                                            *)
(*                                                                         *)
(* Encodings.                                                              *)
(*  - Python's None and an absent dict key are the empty tuple <<>>; a     *)
(*    present value v is the one-element tuple <<v>> (see None, Some).     *)
(*  - self.models is a Python dict; its iteration order is the insertion   *)
(*    order, so the registry is a sequence of [id, model] entries with     *)
(*    pairwise distinct ids.                                               *)
(*  - budget_spent_today is held in millionths of a currency unit, so that *)
(*    (tokens_used / 1_000_000) * cost_per_1m_tokens is the integer        *)
(*    tokens_used * cost_per_1m_tokens; daily_limit stays in whole units   *)
(*    and is scaled by Million wherever the code compares or subtracts.    *)
(*    Rounding of binary floating point is not modelled.                   *)
(*  - Descriptions are strings; `in` on strings is substring search.       *)
(***************************************************************************)
EXTENDS Integers, Sequences, FiniteSets, TLC

VARIABLES
    models,              \* self.models: registry in insertion order
    routing_rules,       \* self.routing_rules: ordered rule list
    budget_spent_today,  \* self.budget_spent_today, in millionths
    daily_limit,         \* self.daily_limit, in whole units
    description,         \* the text last handed to classify_task
    task,                \* the Task last classified or routed (None before)
    result,              \* the dict last returned by route_task (None before)
    last_call            \* the operation that made the last step

vars == <<models, routing_rules, budget_spent_today, daily_limit,
          description, task, result, last_call>>

-----------------------------------------------------------------------------
(* Bounds of the model *)

MaxWords == 2
MaxModels == 2
MaxRules == 2
MaxSpent == 3

Million == 1000000

-----------------------------------------------------------------------------
(* Optional values *)

None == <<>>

Some(v) == <<v>>

\* Python truthiness of an optional string: None and "" are falsy.
Truthy(opt) == opt # None /\ opt[1] # ""

-----------------------------------------------------------------------------
(* Strings *)

UpperCase == "ABCDEFGHIJKLMNOPQRSTUVWXYZ"

LowerCase == "abcdefghijklmnopqrstuvwxyz"

lower_char(c) ==
    IF \E i \in 1..Len(UpperCase) : SubSeq(UpperCase, i, i) = c
    THEN LET i == CHOOSE i \in 1..Len(UpperCase) : SubSeq(UpperCase, i, i) = c
         IN  SubSeq(LowerCase, i, i)
    ELSE c

\* str.lower()
RECURSIVE lower(_)
lower(s) ==
    IF Len(s) = 0 THEN s
    ELSE lower_char(SubSeq(s, 1, 1)) \o lower(SubSeq(s, 2, Len(s)))

\* word in desc
contains(desc, word) ==
    \E i \in 1..(Len(desc) - Len(word) + 1) :
        SubSeq(desc, i, i + Len(word) - 1) = word

\* any(word in desc for word in words)
any_in(desc, words) == \E word \in words : contains(desc, word)

-----------------------------------------------------------------------------
(* classify_task *)

CodeSimpleWords == {"write code", "create function", "implement"}

CodeReviewWords == {"review code", "refactor", "audit"}

DebuggingWords == {"debug", "fix error", "solve bug"}

CodeComplexWords == {"architecture", "design system", "scale"}

ImageWords == {"generate image", "create picture"}

DataWords == {"analyze data", "process data"}

LowWords == {"simple", "basic", "easy"}

HighWords == {"complex", "advanced", "architecture"}

\* The Task dataclass, with its defaults for priority and require_fallback.
Task(desc, ttype, cplx) ==
    [description |-> desc, task_type |-> ttype, complexity |-> cplx,
     priority |-> "normal", require_fallback |-> TRUE]

\* The type chain with the debugging test ahead of the code_review test.
detect_task_type_reordered(desc) ==
    IF any_in(desc, CodeSimpleWords) THEN "code_simple"
    ELSE IF any_in(desc, DebuggingWords) THEN "debugging"
    ELSE IF any_in(desc, CodeReviewWords) THEN "code_review"
    ELSE IF any_in(desc, CodeComplexWords) THEN "code_complex"
    ELSE IF any_in(desc, ImageWords) THEN "image"
    ELSE IF any_in(desc, DataWords) THEN "data"
    ELSE "chat"

detect_task_type(desc) ==
    IF any_in(desc, CodeSimpleWords) THEN "code_simple"
    ELSE IF any_in(desc, CodeReviewWords) THEN "code_review"
    ELSE IF any_in(desc, DebuggingWords) THEN "debugging"
    ELSE IF any_in(desc, CodeComplexWords) THEN "code_complex"
    ELSE IF any_in(desc, ImageWords) THEN "image"
    ELSE IF any_in(desc, DataWords) THEN "data"
    ELSE "chat"

detect_complexity(desc) ==
    IF any_in(desc, LowWords) THEN "low"
    ELSE IF any_in(desc, HighWords) THEN "high"
    ELSE "medium"

\* The classifier without the lower() of its first line.
classify_task_case_sensitive(task_description) ==
    Task(task_description, detect_task_type(task_description),
         detect_complexity(task_description))

classify_task(task_description) ==
    LET desc == lower(task_description)
    IN  Task(task_description, detect_task_type(desc), detect_complexity(desc))

-----------------------------------------------------------------------------
(* The registry: self.models *)

\* The Model dataclass; max_context, priority and capabilities are carried
\* by the code but read by none of its operations.
Model(name, type, cost) ==
    [name |-> name, type |-> type, cost_per_1m_tokens |-> cost]

\* model_id in self.models
has_model(registry, model_id) ==
    \E i \in 1..Len(registry) : registry[i].id = model_id

\* self.models[model_id]
model_of(registry, model_id) ==
    registry[CHOOSE i \in 1..Len(registry) : registry[i].id = model_id].model

\* self.models.get(key), key an optional id
models_get(registry, key) ==
    IF key # None /\ has_model(registry, key[1])
    THEN Some(model_of(registry, key[1]))
    ELSE None

\* [m for m in self.models.values() if task.task_type in m.type]
capable_models(registry, t) ==
    SelectSeq(registry, LAMBDA e : t.task_type \in e.model.type)

\* max where the code has min.
find_most_expensive_model(registry, t) ==
    LET capable == capable_models(registry, t)
    IN  IF capable = <<>> THEN None
        ELSE LET i == CHOOSE i \in 1..Len(capable) :
                        /\ \A j \in 1..Len(capable) :
                              capable[i].model.cost_per_1m_tokens
                                  >= capable[j].model.cost_per_1m_tokens
                        /\ \A j \in 1..(i - 1) :
                              capable[j].model.cost_per_1m_tokens
                                  < capable[i].model.cost_per_1m_tokens
             IN  Some(capable[i].model)

\* min(capable, key=cost, default=None): the first of the cheapest, in
\* iteration order.
find_cheapest_model(registry, t) ==
    LET capable == capable_models(registry, t)
    IN  IF capable = <<>> THEN None
        ELSE LET i == CHOOSE i \in 1..Len(capable) :
                        /\ \A j \in 1..Len(capable) :
                              capable[i].model.cost_per_1m_tokens
                                  <= capable[j].model.cost_per_1m_tokens
                        /\ \A j \in 1..(i - 1) :
                              capable[j].model.cost_per_1m_tokens
                                  > capable[i].model.cost_per_1m_tokens
             IN  Some(capable[i].model)

-----------------------------------------------------------------------------
(* route_task *)

\* A routing rule: rule.get('when', {}) with its two optional keys, and the
\* optional 'use', 'fallback' and 'reasoning' keys.
Rule(when_type, when_complexity, use, fallback, reasoning) ==
    [when |-> [task_type |-> when_type, complexity |-> when_complexity],
     use |-> use, fallback |-> fallback, reasoning |-> reasoning]

\* The two `continue` tests of the scan, negated.
rule_matches(rule, t) ==
    LET when == rule.when
        type_match == when.task_type = Some(t.task_type)
        complexity_match == when.complexity = Some(t.complexity)
    IN  /\ ~(Truthy(when.task_type) /\ ~type_match)
        /\ ~(Truthy(when.complexity) /\ ~complexity_match)

\* A scan that keeps the last matching rule instead of stopping at the first.
last_match(rules, t, i) ==
    LET hits == { j \in i..Len(rules) : rule_matches(rules[j], t) }
    IN  IF hits = {} THEN 0
        ELSE CHOOSE j \in hits : \A k \in hits : k <= j

\* for rule in self.routing_rules: the index the loop stops at, 0 if it
\* runs off the end.
RECURSIVE first_match(_, _, _)
first_match(rules, t, i) ==
    IF i > Len(rules) THEN 0
    ELSE IF rule_matches(rules[i], t) THEN i
    ELSE first_match(rules, t, i + 1)

blocked_decision ==
    [status |-> "blocked",
     reason |-> "Daily budget exceeded",
     suggestion |-> "Wait for budget reset or increase limit"]

\* The matched rule's decision without the cheapest-model substitution.
rule_decision_no_substitute(registry, rule, t, limit, spent) ==
    LET reasoning == IF rule.reasoning # None THEN rule.reasoning[1]
                     ELSE "No reasoning provided"
        selected_model == models_get(registry, rule.use)
        fallback_model == IF Truthy(rule.fallback)
                          THEN models_get(registry, rule.fallback) ELSE None
    IN  [status |-> "routed",
         task |-> t.description,
         task_type |-> t.task_type,
         complexity |-> t.complexity,
         selected_model |-> IF selected_model # None
                            THEN Some(selected_model[1].name) ELSE None,
         fallback_model |-> IF fallback_model # None
                            THEN Some(fallback_model[1].name) ELSE None,
         reasoning |-> reasoning,
         estimated_cost |-> IF selected_model # None
                            THEN Some(selected_model[1].cost_per_1m_tokens)
                            ELSE None,
         budget_remaining |-> limit * Million - spent]

\* The body of the loop after "Found matching rule".
rule_decision(registry, rule, t, limit, spent) ==
    LET model_id == rule.use
        fallback == rule.fallback
        reasoning == IF rule.reasoning # None THEN rule.reasoning[1]
                     ELSE "No reasoning provided"
        looked_up == models_get(registry, model_id)
        fallback_model == IF Truthy(fallback)
                          THEN models_get(registry, fallback) ELSE None
        selected_model == IF looked_up = None
                          THEN find_cheapest_model(registry, t)
                          ELSE looked_up
    IN  [status |-> "routed",
         task |-> t.description,
         task_type |-> t.task_type,
         complexity |-> t.complexity,
         selected_model |-> IF selected_model # None
                            THEN Some(selected_model[1].name) ELSE None,
         fallback_model |-> IF fallback_model # None
                            THEN Some(fallback_model[1].name) ELSE None,
         reasoning |-> reasoning,
         estimated_cost |-> IF selected_model # None
                            THEN Some(selected_model[1].cost_per_1m_tokens)
                            ELSE None,
         budget_remaining |-> limit * Million - spent]

\* The cheapest-option decision reading model.name without the None test:
\* the call fails when no model is capable.
cheapest_decision_unguarded(registry, t) ==
    LET model == find_cheapest_model(registry, t)
    IN  IF model = None THEN [status |-> "error"]
        ELSE [status |-> "routed",
              task |-> t.description,
              task_type |-> t.task_type,
              complexity |-> t.complexity,
              selected_model |-> Some(model[1].name),
              reasoning |-> "No matching rule - using cheapest option",
              estimated_cost |-> Some(model[1].cost_per_1m_tokens)]

\* "No matching rule - use cheapest".
cheapest_decision(registry, t) ==
    LET model == find_cheapest_model(registry, t)
    IN  [status |-> "routed",
         task |-> t.description,
         task_type |-> t.task_type,
         complexity |-> t.complexity,
         selected_model |-> IF model # None
                            THEN Some(model[1].name) ELSE None,
         reasoning |-> "No matching rule - using cheapest option",
         estimated_cost |-> IF model # None
                            THEN Some(model[1].cost_per_1m_tokens)
                            ELSE None]

\* The gate written with > where the code has >=.
budget_exceeded_strict(spent, limit) == spent > limit * Million

\* The budget gate.
budget_exceeded(spent, limit) == spent >= limit * Million

route_task(registry, rules, limit, spent, t) ==
    IF budget_exceeded(spent, limit) THEN blocked_decision
    ELSE LET i == first_match(rules, t, 1)
         IN  IF i # 0 THEN rule_decision(registry, rules[i], t, limit, spent)
             ELSE cheapest_decision(registry, t)

-----------------------------------------------------------------------------
(* track_cost *)

\* = where the code has +=.
track_cost_overwrite(registry, spent, model_id, tokens_used) ==
    IF has_model(registry, model_id)
    THEN tokens_used * model_of(registry, model_id).cost_per_1m_tokens
    ELSE spent

\* The value of budget_spent_today after track_cost(model_id, tokens_used).
track_cost(registry, spent, model_id, tokens_used) ==
    IF has_model(registry, model_id)
    THEN LET model == model_of(registry, model_id)
             cost == tokens_used * model.cost_per_1m_tokens
         IN  spent + cost
    ELSE spent

-----------------------------------------------------------------------------
(* Inputs *)

\* Registry entries a configuration can list: costs 3, 2 and 2 (a tie).
ModelPool ==
    { [id |-> "x", model |-> Model("Xray", {"chat"}, 3)],
      [id |-> "b", model |-> Model("Beta", {"chat", "image"}, 2)],
      [id |-> "c", model |-> Model("Gamma", {"chat"}, 2)] }

\* Ids handed to track_cost; "ghost" is in no registry.
ModelIds == {"x", "b", "ghost"}

Registries ==
    { r \in UNION { [1..n -> ModelPool] : n \in 0..MaxModels } :
        \A i, j \in 1..Len(r) : r[i].id = r[j].id => i = j }

RulePool ==
    { Rule(Some("chat"), None, Some("x"), Some("b"), Some("r1")),
      Rule(None, None, Some("b"), None, None),
      Rule(Some("chat"), Some("high"), Some("ghost"), Some("ghost"), Some("r3")),
      Rule(Some(""), None, Some("x"), Some(""), Some("r5")) }

RuleLists == UNION { [1..n -> RulePool] : n \in 0..MaxRules }

DailyLimits == {0, 3}

RouterTasks ==
    { Task("hi", "chat", "medium"),
      Task("Complex question", "chat", "high"),
      Task("generate image", "image", "medium") }

TokenCounts == {-1000000, 500000, 1000000}

\* Fragments a description is put together from, joined by single spaces.
Fragments ==
    { "implement", "Architecture", "simple", "Debug", "escalate", "COMPLEX",
      "refactor", "generate image", "data", "process", "weather", "uneasy" }

RECURSIVE DescriptionsOf(_)
DescriptionsOf(n) ==
    IF n = 0 THEN {""}
    ELSE IF n = 1 THEN Fragments
    ELSE { d \o " " \o w : d \in DescriptionsOf(n - 1), w \in Fragments }

Descriptions == UNION { DescriptionsOf(n) : n \in 0..MaxWords }

-----------------------------------------------------------------------------
(* The router: construction, route_task and track_cost calls *)

Init ==
    /\ models \in Registries
    /\ routing_rules \in RuleLists
    /\ daily_limit \in DailyLimits
    /\ budget_spent_today = 0
    /\ description = ""
    /\ task = None
    /\ result = None
    /\ last_call = "init"

\* A route_task that bills the selected model's cost to the budget itself.
RouteTaskCharging(t) ==
    LET decision == route_task(models, routing_rules, daily_limit,
                               budget_spent_today, t)
    IN  /\ result' = decision
        /\ task' = t
        /\ description' = t.description
        /\ last_call' = "route_task"
        /\ budget_spent_today' =
               IF decision.status = "routed" /\ decision.estimated_cost # None
               THEN budget_spent_today + decision.estimated_cost[1] * Million
               ELSE budget_spent_today
        /\ UNCHANGED <<models, routing_rules, daily_limit>>

RouteTask(t) ==
    /\ result' = route_task(models, routing_rules, daily_limit,
                            budget_spent_today, t)
    /\ task' = t
    /\ description' = t.description
    /\ last_call' = "route_task"
    /\ UNCHANGED <<models, routing_rules, budget_spent_today, daily_limit>>

TrackCost(model_id, tokens_used) ==
    /\ budget_spent_today' =
           track_cost(models, budget_spent_today, model_id, tokens_used)
    /\ budget_spent_today' <= MaxSpent * Million
    /\ budget_spent_today' >= -Million
    /\ last_call' = "track_cost"
    /\ UNCHANGED <<models, routing_rules, daily_limit, description, task,
                   result>>

Next ==
    \/ \E t \in RouterTasks : RouteTask(t)
    \/ \E model_id \in ModelIds, tokens_used \in TokenCounts :
           TrackCost(model_id, tokens_used)

Spec == Init /\ [][Next]_vars

-----------------------------------------------------------------------------
(* The classifier on its own: a router built from the example            *)
(* configuration, and classify_task applied to a description.             *)

InitClassify ==
    /\ models = <<>>
    /\ routing_rules = <<>>
    /\ daily_limit = 50000
    /\ budget_spent_today = 0
    /\ description \in Descriptions
    /\ task = None
    /\ result = None
    /\ last_call = "init"

ClassifyTask ==
    /\ task' = classify_task(description)
    /\ last_call' = "classify_task"
    /\ UNCHANGED <<models, routing_rules, budget_spent_today, daily_limit,
                   description, result>>

NextClassify == ClassifyTask

SpecClassify == InitClassify /\ [][NextClassify]_vars

-----------------------------------------------------------------------------
(* Vocabulary of the properties, stated on the observable state: the last  *)
(* call, the task it was given, the decision it returned and the router's  *)
(* fields.                                                                 *)

Routed == last_call = "route_task"

GatePassed == budget_spent_today < daily_limit * Million

\* A rule matches as the specification words it: a filter is absent or
\* equals the task's field.
SpecMatches(rule, t) ==
    /\ rule.when.task_type = None \/ rule.when.task_type = Some(t.task_type)
    /\ rule.when.complexity = None \/ rule.when.complexity = Some(t.complexity)

\* A filter that is absent or the empty string filters nothing.
NoFilter(opt) == opt = None \/ opt = Some("")

AmendedMatches(rule, t) ==
    /\ NoFilter(rule.when.task_type) \/ rule.when.task_type = Some(t.task_type)
    /\ NoFilter(rule.when.complexity) \/ rule.when.complexity = Some(t.complexity)

\* The smallest index of a rule matching the task of the last call, 0 if none.
FirstIndex(Matches(_, _)) ==
    LET hits == { i \in 1..Len(routing_rules) : Matches(routing_rules[i], task) }
    IN  IF hits = {} THEN 0
        ELSE CHOOSE i \in hits : \A j \in hits : i <= j

RegistryIds == { models[i].id : i \in 1..Len(models) }

EntryOf(id) == CHOOSE e \in { models[i] : i \in 1..Len(models) } : e.id = id

\* The registry entries able to serve the task of the last call.
Capable ==
    { e \in { models[i] : i \in 1..Len(models) } : task.task_type \in e.model.type }

Reasoning(rule) ==
    IF rule.reasoning = None THEN "No reasoning provided" ELSE rule.reasoning[1]

\* The decision is the one of the rule-match branch.
FromRuleBranch == "fallback_model" \in DOMAIN result

\* Reasoning, selected model and fallback of the decision come from the rule.
ComesFrom(rule) ==
    /\ FromRuleBranch
    /\ result.reasoning = Reasoning(rule)
    /\ (rule.use # None /\ rule.use[1] \in RegistryIds) =>
           /\ result.selected_model = Some(EntryOf(rule.use[1]).model.name)
           /\ result.estimated_cost =
                  Some(EntryOf(rule.use[1]).model.cost_per_1m_tokens)
    /\ result.fallback_model =
           IF rule.fallback # None /\ rule.fallback[1] \in RegistryIds
           THEN Some(EntryOf(rule.fallback[1]).model.name)
           ELSE None

\* The routed decision of the last call is that of the first rule matching
\* under Matches, and the cheapest-option decision if there is none.
FirstMatchWins(Matches(_, _)) ==
    (Routed /\ GatePassed) =>
        LET i == FirstIndex(Matches)
        IN  /\ result.status = "routed"
            /\ i # 0 => ComesFrom(routing_rules[i])
            /\ i = 0 => ~FromRuleBranch

\* C1: whenever spent_today >= daily_limit (equality included) route returns
\* blocked with reason 'Daily budget exceeded', whatever the task, registry
\* and rules, and the decision carries no rule's reasoning and no model;
\* whenever spent_today < daily_limit route does not return blocked.
C1_BudgetGate ==
    Routed =>
        /\ budget_spent_today >= daily_limit * Million =>
               /\ result.status = "blocked"
               /\ result.reason = "Daily budget exceeded"
               /\ DOMAIN result = {"status", "reason", "suggestion"}
        /\ budget_spent_today < daily_limit * Million =>
               result.status # "blocked"

\* A call blocked with the spend exactly at a positive limit.
C1_Witness ==
    /\ Routed
    /\ daily_limit > 0
    /\ budget_spent_today = daily_limit * Million
    /\ result.status = "blocked"

C3_LazyResolution ==
    (Routed /\ GatePassed) =>
        LET i == FirstIndex(AmendedMatches)
            rule == routing_rules[i]
            cheapest == find_cheapest_model(models, task)
        IN  (i # 0 /\ (rule.use = None \/ rule.use[1] \notin RegistryIds)) =>
                /\ result.status = "routed"
                /\ result.reasoning = Reasoning(rule)
                /\ result.selected_model =
                       IF cheapest = None THEN None ELSE Some(cheapest[1].name)
                /\ (cheapest # None => task.task_type \in cheapest[1].type)
                /\ (rule.fallback = None \/ rule.fallback[1] \notin RegistryIds)
                       => result.fallback_model = None

\* A rule naming an unknown model was applied and a capable model stood in.
C3_Witness ==
    /\ Routed /\ GatePassed
    /\ FirstIndex(AmendedMatches) # 0
    /\ routing_rules[FirstIndex(AmendedMatches)].use = Some("ghost")
    /\ result.reasoning = "r3"
    /\ result.selected_model # None
    /\ result.fallback_model = None

\* C4: find_cheapest_model returns a model able to serve the task's type
\* whose cost is <= that of every capable model, and none exactly when no
\* model is capable; when no rule matches, route returns that model with
\* reasoning 'No matching rule - using cheapest option'.
C4_CheapestCapable ==
    /\ \A t \in RouterTasks :
           LET m == find_cheapest_model(models, t)
               able == { i \in 1..Len(models) : t.task_type \in models[i].model.type }
           IN  /\ m = None <=> able = {}
               /\ m # None =>
                      /\ \E i \in able : models[i].model = m[1]
                      /\ \A i \in able : m[1].cost_per_1m_tokens
                                           <= models[i].model.cost_per_1m_tokens
    /\ (Routed /\ GatePassed /\ FirstIndex(AmendedMatches) = 0) =>
           /\ result.status = "routed"
           /\ result.reasoning = "No matching rule - using cheapest option"
           /\ result.selected_model =
                  LET m == find_cheapest_model(models, task)
                  IN  IF m = None THEN None ELSE Some(m[1].name)
           /\ result.selected_model = None <=> Capable = {}
           /\ result.selected_model # None =>
                  \E e \in Capable :
                      /\ result.selected_model = Some(e.model.name)
                      /\ result.estimated_cost = Some(e.model.cost_per_1m_tokens)
                      /\ \A o \in Capable : e.model.cost_per_1m_tokens
                                              <= o.model.cost_per_1m_tokens

\* No rule matched, two capable models of different cost, the cheaper chosen.
C4_Witness ==
    /\ Routed /\ GatePassed
    /\ FirstIndex(AmendedMatches) = 0
    /\ \E e, o \in Capable :
           e.model.cost_per_1m_tokens < o.model.cost_per_1m_tokens
    /\ result.selected_model # None
    /\ result.reasoning = "No matching rule - using cheapest option"

\* C5: track_cost on a registered id adds tokens_used / 1_000_000 times the
\* model's cost_per_1m_tokens to spent_today (1_000_000 tokens at cost 3 add
\* exactly 3); on an unknown id it leaves spent_today unchanged.
C5_TrackCost ==
    [][\A model_id \in ModelIds, tokens_used \in TokenCounts :
          (last_call' = "track_cost" /\ TrackCost(model_id, tokens_used)) =>
              /\ model_id \in RegistryIds =>
                     (budget_spent_today' - budget_spent_today) =
                         tokens_used * EntryOf(model_id).model.cost_per_1m_tokens
              /\ (model_id \in RegistryIds /\ tokens_used = Million
                    /\ EntryOf(model_id).model.cost_per_1m_tokens = 3) =>
                     budget_spent_today' = budget_spent_today + 3 * Million
              /\ model_id \notin RegistryIds =>
                     budget_spent_today' = budget_spent_today]_vars

\* One and a half units have been tracked: 500_000 tokens at cost 3.
C5_Witness ==
    /\ last_call = "track_cost"
    /\ budget_spent_today = 3 * (Million \div 2)

\* C7 as stated: spent_today never decreases over route and track_cost
\* calls, so once a route call has returned blocked every later one does.
C7_BudgetStaysExhausted ==
    [][/\ budget_spent_today' >= budget_spent_today
       /\ (result # None /\ result.status = "blocked"
             /\ last_call' = "route_task") => result'.status = "blocked"]_vars

\* C8: route_task leaves spent_today, daily_limit, the registry and the rule
\* list unchanged; only track_cost changes spent_today and it changes
\* nothing else; consecutive route calls for the same task, with no
\* track_cost between them, return the same decision.
C8_RouteReadOnly ==
    [][/\ last_call' = "route_task" =>
              UNCHANGED <<budget_spent_today, daily_limit, models, routing_rules>>
       /\ last_call' = "track_cost" =>
              UNCHANGED <<daily_limit, models, routing_rules, task, result>>
       /\ (last_call = "route_task" /\ last_call' = "route_task"
             /\ task' = task) => result' = result]_vars

\* A routed decision returned while part of the budget was already spent.
C8_Witness ==
    /\ Routed
    /\ budget_spent_today > 0
    /\ result.status = "routed"
    /\ result.selected_model # None

\* C9: route always returns a decision whose status is blocked or routed;
\* past the gate, when no rule matches or the matching rule's `use` id is
\* unknown, and no model can serve the task's type, the decision is routed
\* with selected_model = none and estimated_cost = none.
C9_AbsenceIsAValue ==
    Routed =>
        /\ result.status \in {"blocked", "routed"}
        /\ LET i == FirstIndex(AmendedMatches)
               unresolved ==
                   \/ i = 0
                   \/ routing_rules[i].use = None
                   \/ routing_rules[i].use[1] \notin RegistryIds
           IN  (GatePassed /\ unresolved /\ Capable = {}) =>
                   /\ result.status = "routed"
                   /\ result.selected_model = None
                   /\ result.estimated_cost = None

\* A task no model of a non-empty registry can serve was routed to none.
C9_Witness ==
    /\ Routed /\ GatePassed
    /\ models # <<>>
    /\ Capable = {}
    /\ result.status = "routed"
    /\ result.selected_model = None
    /\ result.estimated_cost = None

-----------------------------------------------------------------------------
(* Properties of the classifier, under SpecClassify *)

Classified == last_call = "classify_task"

LetterPairs ==
    { <<SubSeq(UpperCase, k, k), SubSeq(LowerCase, k, k)>> : k \in 1..Len(UpperCase) }

\* The characters a and b are the same up to letter case.
SameLetter(a, b) == a = b \/ <<a, b>> \in LetterPairs \/ <<b, a>> \in LetterPairs

\* The keyword occurs in the text as a substring, letter case ignored.
Occurs(text, keyword) ==
    \E i \in 1..(Len(text) - Len(keyword) + 1) :
        \A k \in 1..Len(keyword) :
            SameLetter(SubSeq(text, i + k - 1, i + k - 1), SubSeq(keyword, k, k))

AnyOccurs(text, keywords) == \E keyword \in keywords : Occurs(text, keyword)

\* The keyword groups of task_type in their fixed order.
TypeGroups ==
    << [type |-> "code_simple",
        keywords |-> {"write code", "create function", "implement"}],
       [type |-> "code_review",
        keywords |-> {"review code", "refactor", "audit"}],
       [type |-> "debugging",
        keywords |-> {"debug", "fix error", "solve bug"}],
       [type |-> "code_complex",
        keywords |-> {"architecture", "design system", "scale"}],
       [type |-> "image",
        keywords |-> {"generate image", "create picture"}],
       [type |-> "data",
        keywords |-> {"analyze data", "process data"}] >>

ExpectedType(text) ==
    LET hits == { g \in 1..Len(TypeGroups) : AnyOccurs(text, TypeGroups[g].keywords) }
    IN  IF hits = {} THEN "chat"
        ELSE TypeGroups[CHOOSE g \in hits : \A h \in hits : g <= h].type

ExpectedComplexity(text) ==
    IF AnyOccurs(text, {"simple", "basic", "easy"}) THEN "low"
    ELSE IF AnyOccurs(text, {"complex", "advanced", "architecture"}) THEN "high"
    ELSE "medium"

\* C6 as stated: every description containing "architecture" is classified
\* task_type = code_complex and complexity = high.
C6_ArchitectureAsStated ==
    (Classified /\ Occurs(description, "architecture")) =>
        /\ task.task_type = "code_complex"
        /\ task.complexity = "high"

\* C6 amended: a description containing "architecture" is classified
\* task_type = code_complex unless it also contains a code_simple,
\* code_review or debugging keyword, and complexity = high unless it also
\* contains a low keyword (simple, basic, easy).
C6_Architecture ==
    (Classified /\ Occurs(description, "architecture")) =>
        /\ ~(\E g \in 1..3 : AnyOccurs(description, TypeGroups[g].keywords))
               => task.task_type = "code_complex"
        /\ ~AnyOccurs(description, {"simple", "basic", "easy"})
               => task.complexity = "high"

\* "Architecture", capitalised and next to a keyword of a later group, set
\* both fields.
C6_Witness ==
    /\ Classified
    /\ Occurs(description, "architecture")
    /\ ~contains(description, "architecture")
    /\ Occurs(description, "generate image")
    /\ task.task_type = "code_complex"
    /\ task.complexity = "high"

\* C10: task_type is the first keyword group, in the order code_simple,
\* code_review, debugging, code_complex, image, data, with a keyword
\* occurring as a case-insensitive substring, and chat if there is none;
\* complexity is low if a low keyword occurs, else high if a high keyword
\* occurs, else medium, whatever the task_type; priority is normal and
\* require_fallback is true.
C10_ClassifierPrecedence ==
    Classified =>
        /\ task.description = description
        /\ task.task_type = ExpectedType(description)
        /\ task.complexity = ExpectedComplexity(description)
        /\ task.priority = "normal"
        /\ task.require_fallback = TRUE

\* Keywords of two groups occur; the earlier group won, and complexity was
\* set by its own pass.
C10_Witness ==
    /\ Classified
    /\ Occurs(description, "refactor")
    /\ Occurs(description, "debug")
    /\ task.task_type = "code_review"
    /\ task.complexity = "medium"

====
